---- MODULE Spec2Model ----
(***************************************************************************)
(* CacheProvider v2.0 (src/src/cache.js): a path-addressed cache document  *)
(* backed by localStorage / globalStorage / userData behaviour, with sync  *)
(* observers.                                                              *)
(*                                                                         *)
(* JavaScript values are tagged records.  A key string is modelled by the  *)
(* sequence of segments that key.split('.') yields ('' is <<"">>, which is *)
(* also what [].join('.') gives back); an omitted (undefined) key argument *)
(* is the empty sequence <<>>.  A thrown exception is the record TypeError *)
(* or ReferenceError in place of the returned value.                       *)
(*                                                                         *)
(* The host is one of the eight combinations of localStorage,              *)
(* globalStorage and the userData behaviour being there; JSON is there in  *)
(* all of them, and observers return without throwing.  Each call of the   *)
(* provider is one step: the code is synchronous and single-threaded.      *)
(***************************************************************************)
EXTENDS Naturals, Sequences, FiniteSets, TLC

VARIABLES
    host,          \* which storage globals the host page provides
    localStorage,  \* namespace -> stored item (Null when absent)
    globalStorage, \* namespace -> stored item of globalStorage[document.domain]
    userData,      \* childNodes of the userData xml document: <<[key, value]>>
    name,          \* this.name
    cache,         \* this.cache
    events,        \* this.events
    last,          \* the last call on the provider: [op, key, value, ret]
    saves,         \* results of the _helper.save calls made by the last call
    calls,         \* observer invocations made by the last call: <<[fn, arg, ret, stored]>>
    tried,         \* backends the last call accessed, in order: <<[backend, outcome]>>
    ops            \* number of calls made so far

vars == <<host, localStorage, globalStorage, userData, name, cache, events,
          last, saves, calls, tried, ops>>

\* ------------------------------------------------------------------ bounds
MaxOps == 2

\* --------------------------------------------------------------- JS values
Undefined == [t |-> "undefined"]
Null == [t |-> "null"]
Num(n) == [t |-> "number", v |-> n]
Str(s) == [t |-> "string", v |-> s]
Bool(b) == [t |-> "boolean", v |-> b]
Arr(e) == [t |-> "array", e |-> e]
Obj(m) == [t |-> "object", m |-> m]
Fun(f) == [t |-> "function", f |-> f]

EmptyMap == [k \in {} |-> Undefined]
EmptyObject == Obj(EmptyMap)
EmptyArray == Arr(<<>>)

\* Exceptions and the provider itself as results of a call.
TypeError == [t |-> "TypeError"]
ReferenceError == [t |-> "ReferenceError"]
SyntaxError == [t |-> "SyntaxError"]
This == [t |-> "this"]
IsThrow(v) == v.t \in {"TypeError", "ReferenceError", "SyntaxError"}

\* ToBoolean
Truthy(v) ==
    CASE v.t \in {"undefined", "null"} -> FALSE
      [] v.t = "number" -> v.v # "0"
      [] v.t = "string" -> v.v # ""
      [] v.t = "boolean" -> v.v = "true"
      [] OTHER -> TRUE

\* typeof
typeof(v) ==
    CASE v.t = "null" -> "object"
      [] v.t = "array" -> "object"
      [] OTHER -> v.t

\* Properties every object inherits from Object.prototype (Array.prototype,
\* Function.prototype, String.prototype ... have them too), within Segs.
ProtoProps == {"toString"}
NativeFn(p) == Fun(p)

\* prop in obj throws a TypeError when obj is a primitive
InThrows(obj) == obj.t \notin {"object", "array", "function"}

\* prop in obj, for an obj that is not a primitive: own or inherited property
In(prop, obj) ==
    IF obj.t = "object"
    THEN (prop \in DOMAIN obj.m) \/ (prop \in ProtoProps)
    ELSE prop \in ProtoProps

\* obj[prop] for a value that is not null or undefined
GetProp(obj, prop) ==
    IF obj.t = "object" /\ prop \in DOMAIN obj.m THEN obj.m[prop]
    ELSE IF prop \in ProtoProps THEN NativeFn(prop)
    ELSE Undefined

\* obj[prop] = value on an object (an assignment to a property of a primitive
\* is ignored)
PutProp(obj, prop, value) ==
    IF obj.t = "object"
    THEN Obj([k \in DOMAIN obj.m \cup {prop} |-> IF k = prop THEN value ELSE obj.m[k]])
    ELSE obj

\* delete obj[prop]: removes an own property only
DeleteProp(obj, prop) ==
    IF obj.t = "object"
    THEN Obj([k \in DOMAIN obj.m \ {prop} |-> obj.m[k]])
    ELSE obj

\* key || '' followed by split('.')
Split(key) == IF key = <<>> THEN <<"">> ELSE key

\* ------------------------------------------------------------------- JSON
\* The text JSON.stringify produces is modelled by the value it encodes:
\* members whose value is undefined or a function are left out of objects and
\* become null in arrays.
Json(x) == [t |-> "json", x |-> x]

RECURSIVE Encode(_)
Encode(v) ==
    CASE v.t = "object" ->
           LET kept == {k \in DOMAIN v.m : v.m[k].t \notin {"undefined", "function"}}
           IN  Obj([k \in kept |-> Encode(v.m[k])])
      [] v.t = "array" ->
           Arr([i \in 1..Len(v.e) |->
                  IF v.e[i].t \in {"undefined", "function"} THEN Null ELSE Encode(v.e[i])])
      [] OTHER -> v

JSONstringify(v) == Json(Encode(v))

\* JSON.parse(String(text)): null reads as the text "null", an object as
\* "[object Object]" and undefined as "undefined", which are no JSON.
JSONparse(text) ==
    CASE text.t = "json" -> text.x
      [] text.t = "null" -> Null
      [] OTHER -> SyntaxError

\* ------------------------------------------------------------- _userData
\* Identifiers the code reads that no scope declares: reading one throws.
Unbound == {"domain", "xmlDoc"}

\* getContext: addBehavior/load exist only where the host has userData
userData_getContext == IF host.userData THEN This ELSE TypeError

\* getNode: index of the first child node whose key attribute is ns, 0 for null
userData_getNode(ns) ==
    LET hits == {i \in 1..Len(userData) : userData[i].key = ns}
    IN  IF hits = {} THEN 0 ELSE CHOOSE i \in hits : \A j \in hits : i <= j

userData_get(ns) ==
    IF IsThrow(userData_getContext) THEN userData_getContext
    ELSE LET node == userData_getNode(ns)
         IN  IF node # 0 /\ Truthy(userData[node].value)
             THEN userData[node].value ELSE Undefined

\* set: [ret, ud] the value returned (or the exception) and the child nodes after
userData_set(ns, value) ==
    IF IsThrow(userData_getContext) THEN [ret |-> userData_getContext, ud |-> userData]
    ELSE LET node == userData_getNode(ns)
         IN  IF node = 0
             THEN IF "xmlDoc" \in Unbound
                  THEN [ret |-> ReferenceError, ud |-> userData]
                  ELSE [ret |-> value,
                        ud |-> Append(userData, [key |-> ns, value |-> value])]
             ELSE [ret |-> value,
                   ud |-> [userData EXCEPT ![node].value = value]]

\* --------------------------------------------------------------- _helper
RECURSIVE helper_write(_, _, _)
helper_write(data, key, value) ==
    LET props == Split(key)
        obj == IF Truthy(data) THEN data ELSE EmptyObject
        prop == Head(props)
        rest == Tail(props)
    IN  IF prop = "" THEN value
        ELSE LET cur == GetProp(obj, prop)
                 node == IF typeof(cur) # "object" \/ cur.t = "array"
                         THEN EmptyObject ELSE cur
             IN  IF rest # <<>>
                 THEN PutProp(obj, prop, helper_write(node, rest, value))
                 ELSE PutProp(obj, prop, value)

RECURSIVE helper_read(_, _)
helper_read(data, key) ==
    LET obj == IF Truthy(data) THEN data ELSE EmptyObject
        props == Split(key)
        prop == Head(props)
        rest == Tail(props)
    IN  IF prop = "" THEN obj
        ELSE IF InThrows(obj) THEN TypeError
        ELSE IF In(prop, obj)
             THEN IF rest # <<>> THEN helper_read(GetProp(obj, prop), rest)
                  ELSE GetProp(obj, prop)
             ELSE Undefined

helper_load(ns) ==
    LET first ==
          IF ~host.localStorage THEN ReferenceError
          ELSE IF Truthy(localStorage[ns]) THEN JSONparse(localStorage[ns])
          ELSE IF ~host.globalStorage THEN ReferenceError
          ELSE JSONparse(globalStorage[ns])
        second ==
          LET item == userData_get(ns)
          IN  IF IsThrow(item) THEN item
              ELSE JSONparse(IF Truthy(item) THEN item ELSE EmptyObject)
    IN  IF ~IsThrow(first) THEN first
        ELSE IF ~IsThrow(second) THEN second
        ELSE EmptyObject

\* save: [ret, ls, gs, ud] the boolean returned and the three stores after
helper_save(ns, objData) ==
    LET data == JSONstringify(objData)
        ls == IF host.localStorage THEN [localStorage EXCEPT ![ns] = data]
              ELSE localStorage
        \* localStorage.setItem returns undefined, so the right operand of ||
        \* is evaluated whenever setItem did not throw
        legacy == IF ~host.localStorage \/ ~host.globalStorage \/ "domain" \in Unbound
                  THEN ReferenceError ELSE Undefined
        gs == IF IsThrow(legacy) THEN globalStorage
              ELSE [globalStorage EXCEPT ![ns] = data]
        behavior == userData_set(ns, data)
    IN  IF ~IsThrow(legacy)
        THEN [ret |-> TRUE, ls |-> ls, gs |-> gs, ud |-> userData]
        ELSE IF ~IsThrow(behavior.ret)
        THEN [ret |-> TRUE, ls |-> ls, gs |-> gs, ud |-> behavior.ud]
        ELSE [ret |-> FALSE, ls |-> ls, gs |-> gs, ud |-> userData]

\* The backends one call of load accesses, in order, and what each access came
\* to: "ok" (it completed and gave or took the text), "nothing" (it completed
\* and had no text under the name) or "raised" (it threw). localStorage is read
\* first; globalStorage is read when that read returned nothing; the catch
\* block goes to the userData behaviour.
Tried(backend, outcome) == [backend |-> backend, outcome |-> outcome]

loadTried(ns) ==
    LET primary == IF ~host.localStorage THEN "raised"
                   ELSE IF ~Truthy(localStorage[ns]) THEN "nothing"
                   ELSE IF IsThrow(JSONparse(localStorage[ns])) THEN "raised"
                   ELSE "ok"
        legacy == IF ~host.globalStorage THEN "raised"
                  ELSE IF ~Truthy(globalStorage[ns]) THEN "nothing"
                  ELSE IF IsThrow(JSONparse(globalStorage[ns])) THEN "raised"
                  ELSE "ok"
        item == userData_get(ns)
        behavior == IF IsThrow(item) THEN "raised"
                    ELSE IF IsThrow(JSONparse(IF Truthy(item) THEN item
                                              ELSE EmptyObject))
                         THEN "raised"
                    ELSE "ok"
    IN  <<Tried("primary", primary)>>
        \o (IF primary = "nothing" THEN <<Tried("legacy", legacy)>> ELSE <<>>)
        \o (IF primary = "raised" \/ (primary = "nothing" /\ legacy = "raised")
            THEN <<Tried("behavior", behavior)>> ELSE <<>>)

\* The backends one call of save accesses, in order, and what each access came
\* to. setItem returns undefined, so globalStorage is evaluated after every
\* write to localStorage that did not throw; the catch block goes to userData.
saveTried(ns, objData) ==
    LET data == JSONstringify(objData)
        primary == IF host.localStorage THEN "ok" ELSE "raised"
        legacy == IF ~host.globalStorage \/ "domain" \in Unbound
                  THEN "raised" ELSE "ok"
        behavior == IF IsThrow(userData_set(ns, data).ret) THEN "raised" ELSE "ok"
    IN  <<Tried("primary", primary)>>
        \o (IF primary = "ok" THEN <<Tried("legacy", legacy)>> ELSE <<>>)
        \o (IF primary = "raised" \/ legacy = "raised"
            THEN <<Tried("behavior", behavior)>> ELSE <<>>)

\* ------------------------------------------------------------------ inputs
Segs == {"a", "b", "toString"}
Paths == {<<"a">>, <<"b">>, <<"toString">>, <<"a", "b">>, <<"a", "toString">>,
          <<"a", "b", "a">>}
\* key arguments: a path, the empty string, or no argument
Keys == Paths \cup {<<"">>, <<>>}
Ana == Str("Ana")
Values == {Undefined, Null, Num("0"), Str(""), Bool("false"),
           Ana, EmptyArray, EmptyObject}
\* read, write and del hand their arguments to get, set and remove: they are
\* run on a few of the inputs
AliasKeys == {<<"a">>, <<"a", "b">>}
AliasValues == {Ana}
DefaultName == "CacheProvider"
NameArgs == {Undefined, Str("test")}
Names == {DefaultName, "test"}
Callbacks == {Fun("f1"), Fun("f2")}
BindArgs == Callbacks \cup {Ana}
Hosts == [localStorage : BOOLEAN, globalStorage : BOOLEAN, userData : BOOLEAN]

\* what calling an observer returns: the wrapper bind makes returns the
\* variable fn, which by then holds the wrapper itself
CallRet(fn) == IF fn.f = "wrapper" THEN fn ELSE Undefined

\* ----------------------------------------------------------- CacheProvider
Called(op, key, value, ret) == [op |-> op, key |-> key, value |-> value, ret |-> ret]

\* function CacheProvider(name)
Construct(n) ==
    /\ ops < MaxOps
    /\ name' = IF Truthy(n) THEN n.v ELSE DefaultName
    /\ cache' = helper_load(name')
    /\ events' = <<>>
    /\ last' = Called("construct", <<>>, n, This)
    /\ saves' = <<>>
    /\ calls' = <<>>
    /\ tried' = loadTried(name')
    /\ ops' = ops + 1
    /\ UNCHANGED <<host, localStorage, globalStorage, userData>>

\* a sync whose observers are not called once the save has failed
SyncOfStopsOnFailedSave(doc) ==
    LET saved == helper_save(name, doc)
    IN  /\ localStorage' = saved.ls
        /\ globalStorage' = saved.gs
        /\ userData' = saved.ud
        /\ saves' = <<saved.ret>>
        /\ tried' = saveTried(name, doc)
        /\ calls' = IF saved.ret
                    THEN [i \in 1..Len(events) |->
                            [fn |-> events[i], arg |-> doc, ret |-> CallRet(events[i]),
                             stored |-> saved.ls[name]]]
                    ELSE <<>>

\* a sync that calls the observers first and saves afterwards
SyncOfNotifiesBeforeSave(doc) ==
    LET saved == helper_save(name, doc)
    IN  /\ localStorage' = saved.ls
        /\ globalStorage' = saved.gs
        /\ userData' = saved.ud
        /\ saves' = <<saved.ret>>
        /\ tried' = saveTried(name, doc)
        /\ calls' = [i \in 1..Len(events) |->
                       [fn |-> events[i], arg |-> doc, ret |-> CallRet(events[i]),
                        stored |-> localStorage[name]]]

\* sync, applied to the document doc that this.cache holds when it is called;
\* the save is over when the observers run, so each call sees in `stored` what
\* localStorage holds under the name after the save
SyncOf(doc) ==
    LET saved == helper_save(name, doc)
    IN  /\ localStorage' = saved.ls
        /\ globalStorage' = saved.gs
        /\ userData' = saved.ud
        /\ saves' = <<saved.ret>>
        /\ tried' = saveTried(name, doc)
        /\ calls' = [i \in 1..Len(events) |->
                       [fn |-> events[i], arg |-> doc, ret |-> CallRet(events[i]),
                        stored |-> saved.ls[name]]]

sync ==
    /\ ops < MaxOps
    /\ SyncOf(cache)
    /\ last' = Called("sync", <<>>, Undefined, This)
    /\ ops' = ops + 1
    /\ UNCHANGED <<host, name, cache, events>>

\* a get that ends with a sync, as the mutating methods do
getSyncs(key) ==
    /\ ops < MaxOps
    /\ last' = Called("get", key, Undefined, helper_read(cache, key))
    /\ SyncOf(cache)
    /\ ops' = ops + 1
    /\ UNCHANGED <<host, name, cache, events>>

get(key) ==
    /\ ops < MaxOps
    /\ last' = Called("get", key, Undefined, helper_read(cache, key))
    /\ saves' = <<>>
    /\ calls' = <<>>
    /\ tried' = <<>>
    /\ ops' = ops + 1
    /\ UNCHANGED <<host, localStorage, globalStorage, userData, name, cache, events>>

read(key) == get(key)

\* _helper.write changes this.cache in place; what it returns is dropped, so
\* a falsy this.cache, or an empty first segment, leaves this.cache as it was
set(key, value) ==
    /\ ops < MaxOps
    /\ cache' = IF Truthy(cache) /\ Head(Split(key)) # ""
                THEN helper_write(cache, key, value) ELSE cache
    /\ SyncOf(cache')
    /\ last' = Called("set", key, value, This)
    /\ ops' = ops + 1
    /\ UNCHANGED <<host, name, events>>

write(key, value) == set(key, value)

\* delete obj[last] on the object that _helper.read(this.cache, map) returned:
\* the document with that own property removed at the end of the chain of own
\* properties map names (any other obj is no part of the document)
RECURSIVE DeleteAt(_, _, _)
DeleteAt(doc, map, lastSeg) ==
    IF map = <<>> THEN DeleteProp(doc, lastSeg)
    ELSE IF doc.t = "object" /\ Head(map) \in DOMAIN doc.m
         THEN PutProp(doc, Head(map), DeleteAt(doc.m[Head(map)], Tail(map), lastSeg))
         ELSE doc

Front(key) == SubSeq(key, 1, Len(key) - 1)

\* a remove that does not look at the value it deletes
removeDeletesAnyValue(obj, lastSeg) ==
    Truthy(obj) /\ In(lastSeg, obj)

\* obj && last in obj && obj[last], for an obj on which `in` does not throw
removeDeletes(obj, lastSeg) ==
    Truthy(obj) /\ In(lastSeg, obj) /\ Truthy(GetProp(obj, lastSeg))

\* the exception remove throws, Undefined when it throws none
removeThrows(key) ==
    IF key \in {<<>>, <<"">>} THEN Undefined
    ELSE LET obj == helper_read(cache, Front(key))
         IN  IF IsThrow(obj) THEN obj
             ELSE IF Truthy(obj) /\ InThrows(obj) THEN TypeError
             ELSE Undefined

remove(key) ==
    /\ ops < MaxOps
    /\ IF IsThrow(removeThrows(key))
       THEN /\ last' = Called("remove", key, Undefined, removeThrows(key))
            /\ saves' = <<>>
            /\ calls' = <<>>
            /\ tried' = <<>>
            /\ UNCHANGED <<localStorage, globalStorage, userData, cache>>
       ELSE /\ cache' =
                 IF key \in {<<>>, <<"">>} THEN cache
                 ELSE LET lastSeg == key[Len(key)]
                          obj == helper_read(cache, Front(key))
                      IN  IF removeDeletes(obj, lastSeg)
                          THEN DeleteAt(cache, Front(key), lastSeg)
                          ELSE cache
            /\ SyncOf(cache')
            /\ last' = Called("remove", key, Undefined, This)
    /\ ops' = ops + 1
    /\ UNCHANGED <<host, name, events>>

del(key) == remove(key)

clear ==
    /\ ops < MaxOps
    /\ cache' = EmptyObject
    /\ SyncOf(cache')
    /\ last' = Called("clear", <<>>, Undefined, This)
    /\ ops' = ops + 1
    /\ UNCHANGED <<host, name, events>>

\* what check(key) returns on document doc (or the exception it throws)
checkOf(doc, key) ==
    IF key = <<>> THEN TypeError
    ELSE LET lastSeg == key[Len(key)]
             obj == helper_read(doc, Front(key))
         IN  IF IsThrow(obj) THEN obj
             ELSE IF ~Truthy(obj) THEN obj
             ELSE IF InThrows(obj) THEN TypeError
             ELSE IF ~In(lastSeg, obj) THEN Bool("false")
             ELSE IF GetProp(obj, lastSeg) # Undefined THEN Bool("true")
             ELSE Bool("false")

check(key) ==
    /\ ops < MaxOps
    /\ last' = Called("check", key, Undefined, checkOf(cache, key))
    /\ saves' = <<>>
    /\ calls' = <<>>
    /\ tried' = <<>>
    /\ ops' = ops + 1
    /\ UNCHANGED <<host, localStorage, globalStorage, userData, name, cache, events>>

bind(fn) ==
    /\ ops < MaxOps
    /\ events' = Append(events, IF typeof(fn) # "function" THEN Fun("wrapper") ELSE fn)
    /\ last' = Called("bind", <<>>, fn, This)
    /\ saves' = <<>>
    /\ calls' = <<>>
    /\ tried' = <<>>
    /\ ops' = ops + 1
    /\ UNCHANGED <<host, localStorage, globalStorage, userData, name, cache>>

\* ------------------------------------------------------------ specification
\* A page that has just made its provider, in a host whose stores are empty.
Init ==
    /\ host \in Hosts
    /\ localStorage = [n \in Names |-> Null]
    /\ globalStorage = [n \in Names |-> Null]
    /\ userData = <<>>
    /\ name = DefaultName
    /\ last = Called("construct", <<>>, Undefined, This)
    /\ cache = helper_load(name)
    /\ events = <<>>
    /\ saves = <<>>
    /\ calls = <<>>
    /\ tried = loadTried(name)
    /\ ops = 0

Next ==
    \/ \E n \in NameArgs : Construct(n)
    \/ \E k \in Keys : get(k)
    \/ \E k \in AliasKeys : read(k)
    \/ \E k \in Keys, v \in Values : set(k, v)
    \/ \E k \in AliasKeys, v \in AliasValues : write(k, v)
    \/ \E k \in Keys : remove(k)
    \/ \E k \in AliasKeys : del(k)
    \/ clear
    \/ \E k \in Keys : check(k)
    \/ sync
    \/ \E f \in BindArgs : bind(f)

Spec == Init /\ [][Next]_vars

\* ------------------------------------------------------------------ claims
\* The host provides at least one of the three storage mechanisms.
AnyBackend == host.localStorage \/ host.globalStorage \/ host.userData

\* p is a segment-wise prefix of q
IsPrefix(p, q) == Len(p) <= Len(q) /\ SubSeq(q, 1, Len(p)) = p

\* C1: read-after-write. After set(p, v), for a path p of non-empty segments
\* and a value v, get(p) returns v.
C1_ReadAfterWrite ==
    (last.op = "set" /\ last.key \in Paths /\ last.value # Undefined)
        => helper_read(cache, last.key) = last.value

\* C2: path independence. set(p1, v1) followed by set(p2, v2), neither path a
\* prefix of the other, leaves get(p1) = v1 and get(p2) = v2.
C2_PathIndependence ==
    [][(/\ last.op = "set" /\ last'.op = "set"
        /\ last.key \in Paths /\ last'.key \in Paths
        /\ last.value # Undefined /\ last'.value # Undefined
        /\ ~IsPrefix(last.key, last'.key) /\ ~IsPrefix(last'.key, last.key))
       => (/\ helper_read(cache', last.key) = last.value
           /\ helper_read(cache', last'.key) = last'.value)]_vars

\* The two failures above happen only on a provider whose document is null:
\* on a provider whose document is a mapping, both hold.
ReadAfterWriteOnMapping ==
    (last.op = "set" /\ last.key \in Paths /\ cache.t = "object")
        => helper_read(cache, last.key) = last.value

PathIndependenceOnMapping ==
    [][(/\ last.op = "set" /\ last'.op = "set" /\ cache.t = "object"
        /\ last.key \in Paths /\ last'.key \in Paths
        /\ ~IsPrefix(last.key, last'.key) /\ ~IsPrefix(last'.key, last.key))
       => (/\ helper_read(cache', last.key) = last.value
           /\ helper_read(cache', last'.key) = last'.value)]_vars

\* C3: set/remove toggles check. After set(p, v) with v truthy check(p) is
\* true; after a following remove(p), check(p) is false, get(p) is undefined
\* and the parent container of p is still there with all its other keys.
C3_SetRemoveTogglesCheck ==
    [][LET p == last.key
           wasSet == last.op = "set" /\ p \in Paths /\ Truthy(last.value)
       IN  /\ wasSet => checkOf(cache, p) = Bool("true")
           /\ (wasSet /\ last'.op = "remove" /\ last'.key = p)
                 => /\ ~Truthy(checkOf(cache', p))
                    /\ helper_read(cache', p) = Undefined
                    /\ helper_read(cache', Front(p))
                         = DeleteProp(helper_read(cache, Front(p)), p[Len(p)])]_vars

\* On a provider whose document is a mapping, and for a path whose last
\* segment names nothing that objects inherit, set and remove do toggle check.
SetRemoveTogglesOwnKeys ==
    [][LET p == last.key
           wasSet == /\ last.op = "set" /\ p \in Paths /\ Truthy(last.value)
                     /\ cache.t = "object" /\ p[Len(p)] \notin ProtoProps
       IN  /\ wasSet => checkOf(cache, p) = Bool("true")
           /\ (wasSet /\ last'.op = "remove" /\ last'.key = p)
                 => /\ checkOf(cache', p) = Bool("false")
                    /\ helper_read(cache', p) = Undefined
                    /\ helper_read(cache', Front(p))
                         = DeleteProp(helper_read(cache, Front(p)), p[Len(p)])]_vars

\* C4: falsy-value removal quirk. remove(p) on a path whose value is 0, "",
\* false or null leaves the document as it was: check(p) is still true and
\* get(p) still returns that value.
Falsy == {Num("0"), Str(""), Bool("false"), Null}

C4_FalsyValueIsNotRemoved ==
    [][(last'.op = "remove" /\ last'.key \in Paths
          /\ helper_read(cache, last'.key) \in Falsy)
       => (/\ cache' = cache
           /\ last'.ret = This
           /\ checkOf(cache', last'.key) = Bool("true")
           /\ helper_read(cache', last'.key) = helper_read(cache, last'.key))]_vars

C4_Witness ==
    /\ last.op = "remove" /\ last.key \in Paths /\ last.ret = This
    /\ helper_read(cache, last.key) \in Falsy

\* C5: clear() empties the cache. After set(p, v) and clear(), check(p) is
\* false and get() returns an empty document.
C5_ClearEmptiesTheCache ==
    [][(last.op = "set" /\ last.key \in Paths /\ last.value # Undefined
          /\ last'.op = "clear")
       => (/\ ~Truthy(checkOf(cache', last.key))
           /\ helper_read(cache', <<>>) = EmptyObject)]_vars

\* After clear() check is falsy at every path but the names objects inherit.
ClearEmptiesOwnKeys ==
    last.op = "clear"
        => /\ cache = EmptyObject
           /\ \A p \in Paths :
                 Truthy(checkOf(cache, p)) <=> (Len(p) = 1 /\ p[1] \in ProtoProps)

\* C6: persistence round-trip. Where at least one backend exists, a provider
\* made under the same name after a sync reads, at every path that held a
\* value before, that value.
JsonTypes == {"null", "number", "string", "boolean", "array", "object"}

C6_RoundTrip ==
    [][(/\ last.op \in {"set", "remove", "clear", "sync"} /\ last.ret = This
        /\ last'.op = "construct" /\ name' = name
        /\ AnyBackend)
       => \A p \in Paths :
             LET v == helper_read(cache, p)
             IN  (v.t \in JsonTypes /\ Encode(v) = v) => helper_read(cache', p) = v]_vars

\* The round trip holds in every host that has localStorage.
RoundTripWithLocalStorage ==
    [][(/\ last.op \in {"set", "remove", "clear", "sync"} /\ last.ret = This
        /\ last'.op = "construct" /\ name' = name
        /\ host.localStorage)
       => \A p \in Paths :
             LET v == helper_read(cache, p)
             IN  (v.t \in JsonTypes /\ Encode(v) = v) => helper_read(cache', p) = v]_vars

\* C7: observer notification. Every sync calls each bound observer once, in
\* the order bound, with the provider's document; after set(k, v) that
\* document has get(k) = v.
Synced == last.op \in {"set", "remove", "clear", "sync"} /\ last.ret = This

C7_ObserversNotified ==
    Synced =>
        /\ Len(calls) = Len(events)
        /\ \A i \in 1..Len(calls) : calls[i].fn = events[i] /\ calls[i].arg = cache
        /\ (last.op = "set" /\ last.key \in Paths /\ last.value # Undefined)
              => \A i \in 1..Len(calls) :
                    helper_read(calls[i].arg, last.key) = last.value

\* The notification itself is as C7 says: each observer once, in order, with
\* the provider's document.
ObserversNotifiedInOrder ==
    Synced =>
        /\ Len(calls) = Len(events)
        /\ \A i \in 1..Len(calls) : calls[i].fn = events[i] /\ calls[i].arg = cache

\* C8: persistence failure is not fatal. A sync makes one save attempt, then
\* calls every observer with the document, throws nothing, returns the
\* provider and leaves the document and the observers as they were, in every
\* host, the one without any backend included.
C8_SyncSurvivesFailedSave ==
    [][last'.op = "sync"
       => (/\ Len(saves') = 1
           /\ Len(calls') = Len(events)
           /\ \A i \in 1..Len(events) :
                 calls'[i].fn = events[i] /\ calls'[i].arg = cache
           /\ last'.ret = This
           /\ cache' = cache
           /\ events' = events)]_vars

C8_Witness ==
    /\ last.op = "sync" /\ ~AnyBackend
    /\ saves = <<FALSE>>
    /\ Len(events) >= 1
    /\ Len(calls) = Len(events) /\ calls[1].arg = cache

\* C9: a traversal miss is no error. get(p) returns undefined whenever a
\* segment of p is absent or the walk reaches a value that is no mapping
\* while segments remain.
RECURSIVE Misses(_, _)
Misses(doc, p) ==
    IF doc.t # "object" THEN TRUE
    ELSE IF Head(p) \notin DOMAIN doc.m THEN TRUE
    ELSE IF Tail(p) = <<>> THEN FALSE
    ELSE Misses(doc.m[Head(p)], Tail(p))

C9_TraversalMissIsUndefined ==
    (last.op = "get" /\ last.key \in Paths /\ Misses(cache, last.key))
        => last.ret = Undefined

\* C10: check is a total boolean predicate. check(p) is true when the parent
\* of p's last segment resolves to a mapping that has the segment as an own
\* key with a value other than undefined, and false in every other case.
RECURSIVE OwnAt(_, _)
OwnAt(doc, p) ==
    IF p = <<>> THEN doc
    ELSE IF doc.t = "object" /\ Head(p) \in DOMAIN doc.m
         THEN OwnAt(doc.m[Head(p)], Tail(p))
         ELSE Undefined

HasOwnDefined(doc, p) ==
    LET parent == OwnAt(doc, Front(p))
    IN  /\ parent.t = "object"
        /\ p[Len(p)] \in DOMAIN parent.m
        /\ parent.m[p[Len(p)]] # Undefined

C10_CheckIsBoolean ==
    (last.op = "check" /\ last.key \in Paths)
        => last.ret = Bool(IF HasOwnDefined(cache, last.key) THEN "true" ELSE "false")

\* C11: save reports whether the write was accepted. After every call that
\* syncs, the result of its save is true when at least one of the backends it
\* accessed took the write without throwing, and false only when every backend
\* failed.
Accepted == \E i \in DOMAIN tried : tried[i].outcome = "ok"

BackendOrder == <<"primary", "legacy", "behavior">>

Failed(t) == t.outcome \in {"raised", "nothing"}

FallsThroughInOrder(tr) ==
    /\ Len(tr) \in 1..Len(BackendOrder)
    /\ \A i \in DOMAIN tr : tr[i].backend = BackendOrder[i]
    /\ \A i \in DOMAIN tr : i < Len(tr) => Failed(tr[i])
    /\ Failed(tr[Len(tr)]) => Len(tr) = Len(BackendOrder)

NothingPersisted ==
    /\ localStorage[name] = Null
    /\ globalStorage[name] = Null
    /\ userData_getNode(name) = 0

C13_ConstructionYieldsDocument ==
    /\ last.op = "construct"
          => /\ last.ret = This
             /\ cache.t = "object"
             /\ NothingPersisted => cache = EmptyObject
    /\ (last.op = "set" /\ last.key \in Paths /\ last.ret = This)
          => helper_read(cache, last.key) = last.value

\* C14: bind coercion. bind(x) with a non-callable x raises nothing and
\* appends one callable to the observer list; when the next call syncs, that
\* callable returns x itself.
C14_BindCoercion ==
    [][/\ (last'.op = "bind" /\ typeof(last'.value) # "function")
            => /\ last'.ret = This
               /\ Len(events') = Len(events) + 1
               /\ typeof(events'[Len(events')]) = "function"
       /\ (last.op = "bind" /\ typeof(last.value) # "function" /\ Synced')
            => /\ Len(calls') = Len(events)
               /\ calls'[Len(calls')].ret = last.value]_vars

\* C15: remove with no key clears the cache. After remove() or del() with the
\* key undefined, get() returns the empty document, one sync has run and the
\* call returned the provider.
C15_RemoveWithoutKeyClears ==
    (last.op = "remove" /\ last.key = <<>>)
        => /\ helper_read(cache, <<>>) = EmptyObject
           /\ Len(saves) = 1
           /\ last.ret = This

\* C16: remove always syncs. Every remove(key), whatever the document and the
\* key, completes by returning the provider after exactly one save attempt and
\* one notification of every bound observer.
C16_RemoveAlwaysSyncs ==
    last.op = "remove"
        => /\ last.ret = This
           /\ Len(saves) = 1
           /\ Len(tried) >= 1
           /\ Len(calls) = Len(events)
           /\ \A i \in DOMAIN calls : calls[i].fn = events[i]

\* C17: the persisted snapshot tracks the document. Where localStorage works,
\* each observer called during a sync finds under the provider's name the
\* serialization of the whole current document, and so does the caller when
\* set, remove, clear or sync returns.
C17_SnapshotTracksDocument ==
    (host.localStorage /\ Synced)
        => /\ localStorage[name] = JSONstringify(cache)
           /\ \A i \in DOMAIN calls :
                 /\ calls[i].arg = cache
                 /\ calls[i].stored = JSONstringify(cache)

C17_Witness ==
    /\ host.localStorage
    /\ last.op = "set" /\ last.ret = This
    /\ cache.t = "object" /\ Cardinality(DOMAIN cache.m) = 1
    /\ Len(calls) = 1
    /\ calls[1].stored = JSONstringify(cache)
    /\ localStorage[name] # JSONstringify(EmptyObject)

\* C18: reads have no side effects. Every get, read and check step leaves the
\* document, the observer list and the three stores as they were, attempts no
\* save, accesses no backend and calls no observer.
C18_ReadsHaveNoSideEffects ==
    [][last'.op \in {"get", "check"}
          => /\ UNCHANGED <<cache, events, name>>
             /\ UNCHANGED <<localStorage, globalStorage, userData>>
             /\ saves' = <<>>
             /\ tried' = <<>>
             /\ calls' = <<>>]_vars

C18_Witness ==
    /\ last.op \in {"get", "check"}
    /\ host.localStorage
    /\ cache.t = "object" /\ cache # EmptyObject
    /\ localStorage[name] = JSONstringify(cache)
    /\ saves = <<>> /\ calls = <<>>

\* C19: intermediate overwrite on deep write. set(p, v) with p = s1...sn and
\* n >= 2 leaves a mapping at s1...s(n-1) that holds sn -> v. On the way every
\* intermediate position that held a mapping keeps its other keys, and every
\* other intermediate position (absent, scalar, null, array) becomes a fresh
\* mapping that holds nothing but the next segment.
RECURSIVE DeepWritten(_, _, _)
DeepWritten(map, p, v) ==
    IF Len(p) = 1 THEN Obj([k \in DOMAIN map.m \cup {p[1]} |->
                              IF k = p[1] THEN v ELSE map.m[k]])
    ELSE LET held == IF Head(p) \in DOMAIN map.m THEN map.m[Head(p)] ELSE Undefined
             kept == IF held.t = "object" THEN held ELSE EmptyObject
         IN  Obj([k \in DOMAIN map.m \cup {Head(p)} |->
                    IF k = Head(p) THEN DeepWritten(kept, Tail(p), v) ELSE map.m[k]])

DeepSet == last'.op = "set" /\ last'.key \in Paths /\ Len(last'.key) >= 2

C19_DeepWriteOverwritesIntermediates ==
    [][DeepSet
          => LET p == last'.key
                 container == OwnAt(cache', Front(p))
             IN  /\ last'.ret = This
                 /\ container.t = "object"
                 /\ p[Len(p)] \in DOMAIN container.m
                 /\ container.m[p[Len(p)]] = last'.value
                 /\ cache.t = "object" => cache' = DeepWritten(cache, p, last'.value)]_vars

DeepWriteOnMapping ==
    [][(DeepSet /\ cache.t = "object")
          => cache' = DeepWritten(cache, last'.key, last'.value)]_vars

\* C20: a write to the empty path replaces the root. After set('', v) or
\* set(undefined, v) the provider's document is v, and get() returns v. The
\* value is taken truthy: get() answers a falsy document with {}.
C20_EmptyPathReplacesRoot ==
    (/\ last.op = "set" /\ last.key \in {<<>>, <<"">>}
     /\ last.ret = This /\ Truthy(last.value))
        => /\ cache = last.value
           /\ helper_read(cache, <<>>) = last.value

====
